---- MODULE Spec2Model ----
(***************************************************************************)
(* convert_onnx_to_tflite.py as a state machine.                           *)
(*                                                                         *)
(* The script is straight-line code: a monkey-patch of five names on the   *)
(* tensorflow module, the import of the onnx-tf backend, then onnx.load,   *)
(* prepare, (rmtree), export_graph, TFLiteConverter.from_saved_model,      *)
(* convert, open/write and a final print.  Each statement is one action;   *)
(* pc is the line about to be executed.  An uncaught exception ends the    *)
(* process (pc = "failed", exit status 1).  The filesystem (input file,    *)
(* export directory, output file) outlives the process; Rerun starts the   *)
(* script again in a fresh interpreter on the filesystem the last run left.*)
(*                                                                         *)
(* The libraries (onnx, tensorflow, onnx-tf) are outside the repository.   *)
(* They are modelled as deterministic functions of their inputs that may   *)
(* raise; they are taken to be installed, so the import statements         *)
(* themselves succeed.                                                     *)
(***************************************************************************)
EXTENDS Integers, Sequences, FiniteSets, TLC

\* ---------------------------------------------------------------- bounds
MaxModels == 2      \* distinct valid model files considered
MaxNeeds == 1       \* numeric operations one model's translation looks up
MaxRuns == 2        \* successive invocations of the script

\* ------------------------------------------------------------ vocabulary
\* The names assigned at lines 7-11.
PatchedNames == {"ceil", "floor", "abs", "sin", "cos"}

\* "any other tf.<op> the traceback complains about" (line 12): a name the
\* translator may look up on tf that the script does not patch.
OtherNames == {"log"}

Names == PatchedNames \cup OtherNames

\* The files of the SavedModel bundle export_graph writes into export_dir.
BundleNames == {"saved_model.pb", "variables"}

ModelIds == 1..MaxModels

\* Model files are numbered 1..MaxModels; 0 is a model exported some time
\* before the first run, -1 is "no model" (the Python global is unset).
NoModel == [id |-> -1, needs |-> {}]
NoConverter == [model |-> -1, optimizations |-> {}]
NoDir == [exists |-> FALSE, files |-> <<>>]
NoFile == [exists |-> FALSE, data |-> <<>>]

\* The script's calls in source order (lines 19, 22, 25, 26, 29, 31, 35, 36,
\* 38), and the same with the conditional rmtree of line 25 left out.
OpOrder == <<"load", "prepare", "rmtree", "export_graph", "from_saved_model",
             "convert", "open", "write", "print">>
OpOrderNoRmtree == <<"load", "prepare", "export_graph", "from_saved_model",
                     "convert", "open", "write", "print">>

\* The lines of the monkey-patch.
ShimLines == {"l7", "l8", "l9", "l10", "l11"}

VARIABLES
    pc,           \* line about to run, or "done" / "failed"
    run,          \* number of the current invocation
    tfBase,       \* top-level namespace of the installed tensorflow module
    tfns,         \* top-level namespace of tf in the running interpreter
    rebound,      \* names this process has assigned on tf
    backendLoaded,\* onnx_tf.backend has been imported (line 15)
    input,        \* the file at the fixed input path
    onnx_model, tf_rep, converter, tflite_model,   \* the script's globals
    exportDir,    \* the directory at export_dir
    outFile,      \* the file at out_path
    printed,      \* the success line has been printed
    exitStatus,   \* -1 while running, 0 or 1 once the process has ended
    failedAt,     \* the call that raised, "" if none
    error,        \* the exception type raised, "" if none
    trace,        \* calls attempted by this run, in order
    dirAtStart, outAtStart,  \* filesystem when this run started
    dirRun, outRun,          \* the run that last changed each path (0: before)
    prevEnd       \* how the previous run ended

vars == <<pc, run, tfBase, tfns, rebound, backendLoaded, input, onnx_model,
          tf_rep, converter, tflite_model, exportDir, outFile, printed,
          exitStatus, failedAt, error, trace, dirAtStart, outAtStart,
          dirRun, outRun, prevEnd>>

procVars == <<tfns, rebound, backendLoaded, onnx_model, tf_rep, converter,
              tflite_model>>
fsVars == <<exportDir, outFile, dirRun, outRun>>
runVars == <<run, tfBase, input, dirAtStart, outAtStart, prevEnd>>

\* ------------------------------------------------------ library functions
\* tf_rep.export_graph(path): the bundle written for a translated model.
ExportFiles(m) == [n \in BundleNames |-> m.id]

\* Writing a set of files into a directory: same-named files are replaced,
\* the others stay.
Overlay(old, new) ==
    [n \in (DOMAIN old) \cup (DOMAIN new) |->
        IF n \in DOMAIN new THEN new[n] ELSE old[n]]

Restrict(f, S) == [n \in S |-> f[n]]

\* TFLiteConverter.from_saved_model(dir): the model read back from the bundle.
LoadSavedModel(dir) ==
    IF dir.exists /\ "saved_model.pb" \in DOMAIN dir.files
    THEN dir.files["saved_model.pb"] ELSE -1

\* converter.convert(): the flat buffer, as a sequence of bytes.
TfliteBytes(c) ==
    <<"TFL3", c.model,
      IF "DEFAULT" \in c.optimizations THEN "quantized" ELSE "float">>

Prefixes(s) == {SubSeq(s, 1, k) : k \in 0..(Len(s) - 1)}

\* ----------------------------------------------------------- environment
\* The file at the input path: absent, not an ONNX file, or model number id
\* whose translation looks up the operations in needs.
InputFiles ==
    {[kind |-> "missing", id |-> -1, needs |-> {}],
     [kind |-> "malformed", id |-> -1, needs |-> {}]}
    \cup
    {[kind |-> "valid", id |-> i, needs |-> S] :
        i \in ModelIds, S \in {T \in SUBSET Names : Cardinality(T) <= MaxNeeds}}

\* Top-level namespaces of the installed tensorflow: every name is either
\* still defined there ("top") or has moved away ("absent").
AllNamespaces == [Names -> {"absent", "top"}]

\* The namespaces in which the names of lines 7-11 moved together.
ReleaseNamespaces ==
    {[n \in Names |-> IF n \in PatchedNames THEN p ELSE o] :
        p \in {"absent", "top"}, o \in {"absent", "top"}}

Stale == [n \in {"stale.txt"} |-> 0]
OldBundle == [n \in BundleNames |-> 0]

EmptyDir == [exists |-> TRUE, files |-> <<>>]
StaleDir == [exists |-> TRUE, files |-> Overlay(Stale, OldBundle)]

InitDirs ==
    {NoDir, EmptyDir, StaleDir,
     [exists |-> TRUE, files |-> Stale],
     [exists |-> TRUE, files |-> OldBundle]}

JunkFile == [exists |-> TRUE, data |-> <<"junk">>]
OldArtifact ==
    [exists |-> TRUE,
     data |-> TfliteBytes([model |-> 0, optimizations |-> {"DEFAULT"}])]

InitOuts == {NoFile, JunkFile, OldArtifact}

NoPrev == [valid |-> FALSE, ok |-> FALSE, dir |-> NoDir, out |-> NoFile]

\* A fresh interpreter at line 7 of the first run.
InitProcess ==
    /\ pc = "l7"
    /\ run = 1
    /\ tfns = tfBase
    /\ rebound = {}
    /\ backendLoaded = FALSE
    /\ onnx_model = NoModel
    /\ tf_rep = NoModel
    /\ converter = NoConverter
    /\ tflite_model = <<>>
    /\ printed = FALSE
    /\ exitStatus = -1
    /\ failedAt = ""
    /\ error = ""
    /\ trace = <<>>
    /\ dirAtStart = exportDir
    /\ outAtStart = outFile
    /\ dirRun = 0
    /\ outRun = 0
    /\ prevEnd = NoPrev

Init ==
    /\ tfBase \in ReleaseNamespaces
    /\ input \in InputFiles
    /\ exportDir \in InitDirs
    /\ outFile \in InitOuts
    /\ InitProcess

\* Every installed namespace, on a filesystem that holds an earlier export
\* and an earlier artifact; the namespace does not depend on which valid
\* model is read, so one model number stands for all.
InitNs ==
    /\ tfBase \in AllNamespaces
    /\ input \in {f \in InputFiles : f.kind = "valid" => f.id = 1}
    /\ exportDir = StaleDir
    /\ outFile = OldArtifact
    /\ InitProcess

\* ------------------------------------------------------------- the script
\* An uncaught exception: the interpreter prints the traceback and exits 1.
Raise(op, exc) ==
    /\ pc' = "failed"
    /\ failedAt' = op
    /\ error' = exc
    /\ exitStatus' = 1

Goto(l) ==
    /\ pc' = l
    /\ UNCHANGED <<failedAt, error, exitStatus>>

\* tf.<n> = tf.math.<n>
Rebind(n, next) ==
    /\ tfns' = [tfns EXCEPT ![n] = "math"]
    /\ rebound' = rebound \cup {n}
    /\ Goto(next)
    /\ UNCHANGED <<backendLoaded, onnx_model, tf_rep, converter, tflite_model,
                   printed, trace>>
    /\ UNCHANGED fsVars
    /\ UNCHANGED runVars

PatchCeil == pc = "l7" /\ Rebind("ceil", "l8")

\* Mutant: a copy-paste slip at line 8 assigns tf.ceil a second time.
PatchFloor_typo == pc = "l8" /\ Rebind("ceil", "l9")

PatchFloor == pc = "l8" /\ Rebind("floor", "l9")

PatchAbs == pc = "l9" /\ Rebind("abs", "l10")

PatchSin == pc = "l10" /\ Rebind("sin", "l11")

PatchCos == pc = "l11" /\ Rebind("cos", "l15")

\* Mutant: importing the backend reloads tensorflow and drops the patch.
ImportBackend_reloads ==
    /\ pc = "l15"
    /\ backendLoaded' = TRUE
    /\ tfns' = tfBase
    /\ Goto("l19")
    /\ UNCHANGED <<rebound, onnx_model, tf_rep, converter, tflite_model,
                   printed, trace>>
    /\ UNCHANGED fsVars
    /\ UNCHANGED runVars

\* from onnx_tf.backend import prepare; import os
ImportBackend ==
    /\ pc = "l15"
    /\ backendLoaded' = TRUE
    /\ Goto("l19")
    /\ UNCHANGED <<tfns, rebound, onnx_model, tf_rep, converter, tflite_model,
                   printed, trace>>
    /\ UNCHANGED fsVars
    /\ UNCHANGED runVars

\* Mutant: a load that falls back to an empty model when the file is unusable.
Load_lenient ==
    /\ pc = "l19"
    /\ trace' = Append(trace, "load")
    /\ onnx_model' = IF input.kind = "valid"
                     THEN [id |-> input.id, needs |-> input.needs]
                     ELSE [id |-> 1, needs |-> {}]
    /\ Goto("l22")
    /\ UNCHANGED <<tfns, rebound, backendLoaded, tf_rep, converter,
                   tflite_model, printed>>
    /\ UNCHANGED fsVars
    /\ UNCHANGED runVars

\* onnx_model = onnx.load(<input path>)
Load ==
    /\ pc = "l19"
    /\ trace' = Append(trace, "load")
    /\ \/ /\ input.kind = "valid"
          /\ onnx_model' = [id |-> input.id, needs |-> input.needs]
          /\ Goto("l22")
       \/ /\ input.kind = "missing"
          /\ Raise("load", "FileNotFoundError")
          /\ UNCHANGED onnx_model
       \/ /\ input.kind = "malformed"
          /\ Raise("load", "DecodeError")
          /\ UNCHANGED onnx_model
    /\ UNCHANGED <<tfns, rebound, backendLoaded, tf_rep, converter,
                   tflite_model, printed>>
    /\ UNCHANGED fsVars
    /\ UNCHANGED runVars

\* Mutant: a translator that defers the lookup of operations to export time.
Prepare_lazy ==
    /\ pc = "l22"
    /\ trace' = Append(trace, "prepare")
    /\ tf_rep' = onnx_model
    /\ Goto("l24")
    /\ UNCHANGED <<tfns, rebound, backendLoaded, onnx_model, converter,
                   tflite_model, printed>>
    /\ UNCHANGED fsVars
    /\ UNCHANGED runVars

\* tf_rep = prepare(onnx_model, strict=False): the translator resolves the
\* operations the model needs on the tf namespace.
Prepare ==
    /\ pc = "l22"
    /\ trace' = Append(trace, "prepare")
    /\ \/ /\ \E n \in onnx_model.needs : tfns[n] = "absent"
          /\ Raise("prepare", "AttributeError")
          /\ UNCHANGED tf_rep
       \/ /\ \A n \in onnx_model.needs : tfns[n] # "absent"
          /\ tf_rep' = onnx_model
          /\ Goto("l24")
       \/ /\ \A n \in onnx_model.needs : tfns[n] # "absent"
          /\ Raise("prepare", "TranslationError")
          /\ UNCHANGED tf_rep
    /\ UNCHANGED <<tfns, rebound, backendLoaded, onnx_model, converter,
                   tflite_model, printed>>
    /\ UNCHANGED fsVars
    /\ UNCHANGED runVars

\* Mutant: an existing export directory is reused instead of replaced.
CheckExists_reuse ==
    /\ pc = "l24"
    /\ IF exportDir.exists THEN Goto("l29") ELSE Goto("l26")
    /\ UNCHANGED <<printed, trace>>
    /\ UNCHANGED procVars
    /\ UNCHANGED fsVars
    /\ UNCHANGED runVars

\* if os.path.exists(export_dir):
CheckExists ==
    /\ pc = "l24"
    /\ IF exportDir.exists THEN Goto("l25") ELSE Goto("l26")
    /\ UNCHANGED <<printed, trace>>
    /\ UNCHANGED procVars
    /\ UNCHANGED fsVars
    /\ UNCHANGED runVars

\* Mutant: the removal is a no-op, so the export merges into the old tree.
Rmtree_keep ==
    /\ pc = "l25"
    /\ trace' = Append(trace, "rmtree")
    /\ Goto("l26")
    /\ UNCHANGED <<printed>>
    /\ UNCHANGED procVars
    /\ UNCHANGED fsVars
    /\ UNCHANGED runVars

\* tf.io.gfile.rmtree(export_dir); a filesystem error may strike after part
\* of the tree is gone.
Rmtree ==
    /\ pc = "l25"
    /\ trace' = Append(trace, "rmtree")
    /\ \/ /\ exportDir' = NoDir
          /\ dirRun' = run
          /\ Goto("l26")
       \/ /\ \E S \in SUBSET (DOMAIN exportDir.files) :
                exportDir' = [exists |-> TRUE, files |-> Restrict(exportDir.files, S)]
          /\ dirRun' = IF exportDir' = exportDir THEN dirRun ELSE run
          /\ Raise("rmtree", "OSError")
    /\ UNCHANGED <<outFile, outRun, printed>>
    /\ UNCHANGED procVars
    /\ UNCHANGED runVars

\* tf_rep.export_graph(export_dir); a failure may leave part of the bundle.
ExportGraph ==
    /\ pc = "l26"
    /\ trace' = Append(trace, "export_graph")
    /\ \/ /\ exportDir' = [exists |-> TRUE,
                           files |-> Overlay(exportDir.files, ExportFiles(tf_rep))]
          /\ dirRun' = run
          /\ Goto("l29")
       \/ /\ \E S \in (SUBSET BundleNames) \ {BundleNames} :
                exportDir' = [exists |-> TRUE,
                              files |-> Overlay(exportDir.files,
                                                Restrict(ExportFiles(tf_rep), S))]
          /\ dirRun' = run
          /\ Raise("export_graph", "OSError")
       \/ /\ UNCHANGED <<exportDir, dirRun>>
          /\ Raise("export_graph", "OSError")
    /\ UNCHANGED <<outFile, outRun, printed>>
    /\ UNCHANGED procVars
    /\ UNCHANGED runVars

\* converter = tf.lite.TFLiteConverter.from_saved_model(export_dir)
\* converter.optimizations = [tf.lite.Optimize.DEFAULT]
FromSavedModel ==
    /\ pc = "l29"
    /\ trace' = Append(trace, "from_saved_model")
    /\ \/ /\ LoadSavedModel(exportDir) # 0
          /\ converter' = [model |-> LoadSavedModel(exportDir),
                           optimizations |-> {"DEFAULT"}]
          /\ Goto("l31")
       \/ /\ Raise("from_saved_model", "ConverterError")
          /\ UNCHANGED converter
    /\ UNCHANGED <<tfns, rebound, backendLoaded, onnx_model, tf_rep,
                   tflite_model, printed>>
    /\ UNCHANGED fsVars
    /\ UNCHANGED runVars

\* Mutant: a failed conversion is tried again.
Convert_retry ==
    /\ pc = "l31"
    /\ trace' = Append(trace, "convert")
    /\ \/ /\ tflite_model' = TfliteBytes(converter)
          /\ Goto("l35")
       \/ /\ Len(trace) < Len(OpOrder)
          /\ Goto("l31")
          /\ UNCHANGED tflite_model
    /\ UNCHANGED <<tfns, rebound, backendLoaded, onnx_model, tf_rep,
                   converter, printed>>
    /\ UNCHANGED fsVars
    /\ UNCHANGED runVars

\* Mutant: the output file is opened for writing before the conversion.
Convert_openFirst ==
    /\ pc = "l31"
    /\ trace' = Append(trace, "convert")
    /\ outFile' = [exists |-> TRUE, data |-> <<>>]
    /\ outRun' = run
    /\ \/ /\ tflite_model' = TfliteBytes(converter)
          /\ Goto("l35")
       \/ /\ Raise("convert", "ConverterError")
          /\ UNCHANGED tflite_model
    /\ UNCHANGED <<tfns, rebound, backendLoaded, onnx_model, tf_rep,
                   converter, printed>>
    /\ UNCHANGED <<exportDir, dirRun>>
    /\ UNCHANGED runVars

\* tflite_model = converter.convert()
Convert ==
    /\ pc = "l31"
    /\ trace' = Append(trace, "convert")
    /\ \/ /\ tflite_model' = TfliteBytes(converter)
          /\ Goto("l35")
       \/ /\ Raise("convert", "ConverterError")
          /\ UNCHANGED tflite_model
    /\ UNCHANGED <<tfns, rebound, backendLoaded, onnx_model, tf_rep,
                   converter, printed>>
    /\ UNCHANGED fsVars
    /\ UNCHANGED runVars

\* Mutant: the file is opened in append mode, which does not truncate.
OpenOut_append ==
    /\ pc = "l35"
    /\ trace' = Append(trace, "open")
    /\ \/ /\ outFile' = [exists |-> TRUE, data |-> outFile.data]
          /\ outRun' = run
          /\ Goto("l36")
       \/ /\ UNCHANGED <<outFile, outRun>>
          /\ Raise("open", "OSError")
    /\ UNCHANGED <<exportDir, dirRun, printed>>
    /\ UNCHANGED procVars
    /\ UNCHANGED runVars

\* with open(out_path, "wb") as f: mode "wb" creates or truncates the file.
OpenOut ==
    /\ pc = "l35"
    /\ trace' = Append(trace, "open")
    /\ \/ /\ outFile' = [exists |-> TRUE, data |-> <<>>]
          /\ outRun' = run
          /\ Goto("l36")
       \/ /\ UNCHANGED <<outFile, outRun>>
          /\ Raise("open", "OSError")
    /\ UNCHANGED <<exportDir, dirRun, printed>>
    /\ UNCHANGED procVars
    /\ UNCHANGED runVars

\* Mutant: the with block is left without writing the bytes.
WriteOut_skip ==
    /\ pc = "l36"
    /\ trace' = Append(trace, "write")
    /\ Goto("l38")
    /\ UNCHANGED <<printed>>
    /\ UNCHANGED procVars
    /\ UNCHANGED fsVars
    /\ UNCHANGED runVars

\* f.write(tflite_model), then the with block closes f; an error (disk full)
\* leaves only part of the bytes.
WriteOut ==
    /\ pc = "l36"
    /\ trace' = Append(trace, "write")
    /\ \/ /\ outFile' = [exists |-> TRUE, data |-> outFile.data \o tflite_model]
          /\ Goto("l38")
       \/ /\ \E p \in Prefixes(tflite_model) :
                outFile' = [exists |-> TRUE, data |-> outFile.data \o p]
          /\ Raise("write", "OSError")
    /\ outRun' = run
    /\ UNCHANGED <<exportDir, dirRun, printed>>
    /\ UNCHANGED procVars
    /\ UNCHANGED runVars

\* print("... Wrote TFLite model to", out_path); the script ends, exit status 0.
PrintSuccess ==
    /\ pc = "l38"
    /\ trace' = Append(trace, "print")
    /\ printed' = TRUE
    /\ pc' = "done"
    /\ exitStatus' = 0
    /\ UNCHANGED <<failedAt, error>>
    /\ UNCHANGED procVars
    /\ UNCHANGED fsVars
    /\ UNCHANGED runVars

\* The script is started again: a new interpreter, the same installed
\* libraries and input file, the filesystem as the last run left it.
Rerun ==
    /\ pc \in {"done", "failed"}
    /\ run < MaxRuns
    /\ run' = run + 1
    /\ pc' = "l7"
    /\ tfns' = tfBase
    /\ rebound' = {}
    /\ backendLoaded' = FALSE
    /\ onnx_model' = NoModel
    /\ tf_rep' = NoModel
    /\ converter' = NoConverter
    /\ tflite_model' = <<>>
    /\ printed' = FALSE
    /\ exitStatus' = -1
    /\ failedAt' = ""
    /\ error' = ""
    /\ trace' = <<>>
    /\ dirAtStart' = exportDir
    /\ outAtStart' = outFile
    /\ prevEnd' = [valid |-> TRUE, ok |-> (pc = "done"),
                   dir |-> exportDir, out |-> outFile]
    /\ UNCHANGED <<tfBase, input>>
    /\ UNCHANGED fsVars

Next ==
    \/ PatchCeil
    \/ PatchFloor
    \/ PatchAbs
    \/ PatchSin
    \/ PatchCos
    \/ ImportBackend
    \/ Load
    \/ Prepare
    \/ CheckExists
    \/ Rmtree
    \/ ExportGraph
    \/ FromSavedModel
    \/ Convert
    \/ OpenOut
    \/ WriteOut
    \/ PrintSuccess
    \/ Rerun

Spec == Init /\ [][Next]_vars

SpecNs == InitNs /\ [][Next]_vars

\* ----------------------------------------------------------------- claims
Attempted(op) == \E i \in 1..Len(trace) : trace[i] = op

Count(op) == Cardinality({i \in 1..Len(trace) : trace[i] = op})

IsPrefix(s, t) == Len(s) <= Len(t) /\ SubSeq(t, 1, Len(s)) = s

Ended == pc \in {"done", "failed"}

\* What a complete run on the current input leaves at the two fixed paths.
ExpectedDir == [exists |-> TRUE, files |-> [n \in BundleNames |-> input.id]]
ExpectedBytes == <<"TFL3", input.id, "quantized">>

\* C1: when the input file is missing or unusable (the load raises), the run
\* ends in failure at the load call: no later call is attempted, the success
\* line is not printed, and the export directory and the output file are
\* exactly what they were when the run started.
C1_MissingInputFailsAtLoad ==
    ((input.kind # "valid" /\ Attempted("load")) \/ failedAt = "load") =>
        /\ pc = "failed"
        /\ failedAt = "load"
        /\ exitStatus = 1
        /\ ~printed
        /\ trace = <<"load">>
        /\ exportDir = dirAtStart
        /\ outFile = outAtStart
        /\ dirRun # run
        /\ outRun # run

C1_Witness ==
    /\ failedAt = "load"
    /\ input.kind = "missing"
    /\ exportDir = StaleDir
    /\ outFile = OldArtifact

\* C2: once this run's export_graph has returned, the export directory holds
\* exactly the bundle of this run's model and nothing that was there before,
\* whatever the directory held when the run started.
C2_ExportReplacesDirectory ==
    (Attempted("export_graph") /\ failedAt # "export_graph") =>
        /\ exportDir.exists
        /\ DOMAIN exportDir.files = BundleNames
        /\ \A n \in BundleNames : exportDir.files[n] = input.id
        /\ "stale.txt" \notin DOMAIN exportDir.files
        /\ dirRun = run

C2_Witness ==
    /\ Attempted("export_graph")
    /\ failedAt # "export_graph"
    /\ dirAtStart = StaleDir
    /\ exportDir # dirAtStart

\* C3: the success line and exit status 0 occur only in a run that failed
\* nowhere, opened and wrote the output file exactly once, and after the file
\* holds exactly the bytes this run's convert() returned; a run that reaches
\* the end always prints it.
C3_SuccessOnlyAfterWrite ==
    /\ (printed \/ exitStatus = 0 \/ pc = "done") =>
        /\ pc = "done" /\ printed /\ exitStatus = 0
        /\ failedAt = ""
        /\ Count("open") = 1 /\ Count("write") = 1
    /\ pc \in {"l38", "done"} =>
        /\ tflite_model # <<>>
        /\ outFile = [exists |-> TRUE, data |-> tflite_model]
        /\ outRun = run

C3_Witness ==
    /\ pc = "done"
    /\ outAtStart = OldArtifact
    /\ outFile # outAtStart

\* C4: the calls of a run are a prefix of the source order (load, prepare,
\* [rmtree], export_graph, from_saved_model, convert, open, write, print), so
\* each is attempted at most once; a call that raises ends the run at once:
\* it is the last call attempted, the run is in the failure state with exit
\* status 1 and the success line is not printed.
C4_FailuresFatalNoRetry ==
    /\ IsPrefix(trace, OpOrder) \/ IsPrefix(trace, OpOrderNoRmtree)
    /\ failedAt # "" =>
        /\ pc = "failed"
        /\ trace # <<>> /\ trace[Len(trace)] = failedAt
        /\ ~printed
        /\ exitStatus = 1
    /\ pc = "failed" => failedAt # "" /\ error # ""

C4_Witness ==
    /\ pc = "failed"
    /\ failedAt = "convert"
    /\ Attempted("rmtree")

ShimCompleteBeforeUse ==
    (backendLoaded \/ Attempted("prepare")) =>
        /\ pc \notin ShimLines
        /\ rebound = {"ceil", "floor", "abs", "sin", "cos"}
        /\ \A n \in rebound : tfns[n] = "math"

NamespaceFrozenOutsideShim ==
    (pc \notin ShimLines /\ pc' # "l7") => (tfns' = tfns /\ rebound' = rebound)

ShimLineAssignsOneNewName ==
    pc \in ShimLines =>
        \E n \in Names \ rebound :
            /\ rebound' = rebound \cup {n}
            /\ tfns' = [tfns EXCEPT ![n] = "math"]

\* C5: the tf namespace changes only at the patch lines 7-11, each of which
\* assigns one name not assigned before; the patch is complete before the
\* backend is imported and before prepare is called, and from then until the
\* process ends no step changes the namespace.
C5_ShimOnceBeforeUse ==
    /\ [](ShimCompleteBeforeUse)
    /\ [][NamespaceFrozenOutsideShim]_vars
    /\ [][ShimLineAssignsOneNewName]_vars

C5_Witness ==
    /\ pc = "done"
    /\ tfBase["ceil"] = "absent"
    /\ tfns["ceil"] = "math"

C7_EveryRunOverwritesBoth ==
    Ended => (dirRun = run /\ outRun = run)

\* C7, amended: every run in which all stages succeed has replaced both the
\* export directory and the output file with this run's results.
C7_CompleteRunOverwritesBoth ==
    pc = "done" =>
        /\ dirRun = run
        /\ outRun = run
        /\ exportDir = ExpectedDir
        /\ outFile = [exists |-> TRUE, data |-> ExpectedBytes]

C7_Witness ==
    /\ pc = "done"
    /\ run = 2
    /\ prevEnd.ok

\* C8: a run that completes right after a run that completed on the same
\* input leaves the export directory and the output file exactly as the
\* first left them, whatever they held before the first; and a run that fails
\* in load or prepare leaves them as the run before it did.
C8_Idempotent ==
    /\ (pc = "done" /\ prevEnd.valid /\ prevEnd.ok) =>
        (exportDir = prevEnd.dir /\ outFile = prevEnd.out)
    /\ (pc = "failed" /\ failedAt \in {"load", "prepare"} /\ prevEnd.valid) =>
        (exportDir = prevEnd.dir /\ outFile = prevEnd.out)

C8_Witness ==
    /\ pc = "done"
    /\ prevEnd.valid /\ prevEnd.ok
    /\ prevEnd.out # NoFile
    /\ outRun = run

\* C9 as stated: once the patch has run, exactly four names have been
\* assigned on the tf namespace.
C9_ExactlyFourRebound ==
    pc \notin ShimLines => Cardinality(rebound) = 4

\* C9, amended: once the patch has run, exactly the five names ceil, floor,
\* abs, sin and cos have been assigned, each to its tf.math equivalent, and
\* every other name is bound as the installed library bound it.
C9_ExactlyFiveRebound ==
    pc \notin ShimLines =>
        /\ rebound = {"ceil", "floor", "abs", "sin", "cos"}
        /\ Cardinality(rebound) = 5
        /\ \A n \in rebound : tfns[n] = "math"
        /\ \A n \in Names \ rebound : tfns[n] = tfBase[n]

C9_Witness ==
    /\ pc = "l15"
    /\ tfBase["log"] = "absent"
    /\ tfBase["abs"] = "top"
    /\ tfBase["sin"] = "absent"

\* C10: the output file is opened only after convert() has returned, so as
\* long as open has not been attempted, and in particular in a run that
\* failed in load, prepare, rmtree, export_graph, from_saved_model or
\* convert, the output file is exactly what it was when the run started.
C10_ArtifactUntouchedBeforeOpen ==
    /\ Attempted("open") => (Attempted("convert") /\ tflite_model # <<>>)
    /\ ~Attempted("open") => (outFile = outAtStart /\ outRun # run)
    /\ failedAt \in {"load", "prepare", "rmtree", "export_graph",
                     "from_saved_model", "convert"} =>
        (outFile = outAtStart /\ outRun # run)

\* A failed second run: the directory is this run's, the artifact the first's.
C10_Witness ==
    /\ failedAt = "convert"
    /\ run = 2
    /\ dirRun = 2
    /\ outRun = 1
    /\ outFile.exists
    /\ Attempted("rmtree")
    /\ Attempted("export_graph")

====
